---- MODULE Spec2Model ----
(***************************************************************************)
(* Model of src/src/data_treatment.py: the fraud-transactions pipeline.    *)
(*                                                                         *)
(* A DataFrame is a sequence of [idx, row]: idx is the pandas index label  *)
(* (kept through every filter), row maps each column to a cell.  A cell is *)
(* a tagged value: Str(s), F64(q) / I64(q) (a float64 / int64 holding the  *)
(* number q/4: quarters make every median the code computes exact), Null   *)
(* (NaN), Instant(q) (a datetime64, q/4 seconds after the epoch) or NaT.   *)
(***************************************************************************)
EXTENDS Integers, Sequences, FiniteSets, TLC

VARIABLES
    source,         \* the CSV file at file_path: NoFile, or its data rows (raw text cells)
    pc,             \* the statement run_enhanced_data_pipeline / __main__ is at
    df,             \* line 356: the frame read_csv returned
    df_clean,       \* enhanced_data_cleaning's working copy, then df_cleaned
    initial_count,  \* line 138
    removed_count,  \* line 284
    checks,         \* post_processing_checks: [passed, total, flagged]
    tabela1,        \* line 404
    tabela2,        \* lines 415-436
    result,         \* what run_enhanced_data_pipeline returned
    error,          \* the exception an except clause of lines 466-473 caught
    saved           \* the sink data/df_fraud_credit_cleaned.csv: NotWritten or the frame written

vars == <<source, pc, df, df_clean, initial_count, removed_count, checks,
          tabela1, tabela2, result, error, saved>>

-----------------------------------------------------------------------------
(* Cells *)

Str(s) == [str |-> s]
F64(q) == [f64 |-> q]
I64(q) == [i64 |-> q]
Instant(q) == [instant |-> q]
Null == [null |-> TRUE]
NaT == [nat |-> TRUE]
None == [none |-> TRUE]

IsStr(c) == DOMAIN c = {"str"}
IsNumber(c) == DOMAIN c = {"f64"} \/ DOMAIN c = {"i64"}
IsInstant(c) == DOMAIN c = {"instant"}
\* the number a numeric cell holds, in quarters
Val(c) == IF DOMAIN c = {"i64"} THEN c.i64 ELSE c.f64
\* Series.isna(): NaN, None and NaT
isna(c) == c = Null \/ c = NaT

Columns ==
    {"sending_address", "receiving_address", "ip_prefix", "transaction_type",
     "location_region", "age_group", "anomaly", "amount", "session_duration",
     "risk_score", "timestamp"}

NoFile == [nofile |-> TRUE]
NotWritten == [notwritten |-> TRUE]

\* Series.isin(values) on one cell: only a string equals one of the listed strings
isin(c, values) == IsStr(c) /\ c.str \in values

Range(s) == {s[i] : i \in DOMAIN s}

\* boolean-mask selection df[mask]: the rows kept, in order, index labels kept
RECURSIVE SelectRows(_, _)
SelectRows(T, keep) ==
    IF T = <<>> THEN <<>>
    ELSE IF Head(T).idx \in keep
         THEN <<Head(T)>> \o SelectRows(Tail(T), keep)
         ELSE SelectRows(Tail(T), keep)

\* df[col] = cells, the new Series aligned row by row
SetColumn(T, col, cells) ==
    [i \in DOMAIN T |-> [T[i] EXCEPT !.row[col] = cells[i]]]

-----------------------------------------------------------------------------
(* pd.read_csv(file_path), line 356, with pandas' defaults *)

\* the texts read_csv takes for a missing value (pandas 2 default na_values)
NaTexts ==
    {"", "#N/A", "#N/A N/A", "#NA", "-1.#IND", "-1.#QNAN", "-NaN", "-nan",
     "1.#IND", "1.#QNAN", "<NA>", "N/A", "NA", "NULL", "NaN", "None", "n/a",
     "nan", "null"}

\* the numeric texts of the model's inputs and the number each denotes (quarters)
LiteralInts == (-10 .. 100) \cup {200, 500, 501, 50000, 50001}
Literals ==
    {[text |-> ToString(n), q |-> 4 * n, int |-> TRUE] : n \in LiteralInts}
    \cup {[text |-> ToString(n) \o ".0", q |-> 4 * n, int |-> FALSE] : n \in LiteralInts}
    \cup {[text |-> ToString(n) \o ".5", q |-> 4 * n + 2, int |-> FALSE] : n \in 0 .. 100}
    \cup {[text |-> ToString(n) \o ".25", q |-> 4 * n + 1, int |-> FALSE] : n \in 0 .. 100}
    \cup {[text |-> ToString(n) \o ".75", q |-> 4 * n + 3, int |-> FALSE] : n \in 0 .. 100}
LiteralOf == [s \in {l.text : l \in Literals} |-> CHOOSE l \in Literals : l.text = s]
IsNumeric(s) == s \in DOMAIN LiteralOf

\* the dtype read_csv infers for a column: int64 when every cell is an integer
\* text, float64 when every cell is numeric or missing, object otherwise
ColumnDtype(raw, col) ==
    LET texts == {raw[i][col] : i \in DOMAIN raw}
        present == texts \ NaTexts
    IN  IF \E s \in present : ~IsNumeric(s) THEN "object"
        ELSE IF texts \cap NaTexts = {} /\ texts # {} /\ \A s \in present : LiteralOf[s].int
             THEN "int64"
             ELSE "float64"

ParseCell(s, dtype) ==
    IF s \in NaTexts THEN Null
    ELSE IF dtype = "object" THEN Str(s)
    ELSE IF dtype = "int64" THEN I64(LiteralOf[s].q)
    ELSE F64(LiteralOf[s].q)

read_csv(raw) ==
    LET dtype == [col \in Columns |-> ColumnDtype(raw, col)]
    IN  [i \in DOMAIN raw |->
            [idx |-> i - 1,
             row |-> [col \in Columns |-> ParseCell(raw[i][col], dtype[col])]]]

-----------------------------------------------------------------------------
(* enhanced_data_cleaning, lines 134-288 *)

\* Series.str.len() == n: NaN (not a string) compares False
str_len_eq(c, n) == IsStr(c) /\ Len(c.str) = n
\* Series.str.startswith(p); NaN counts as False in the & of line 143
str_startswith(c, p) ==
    IsStr(c) /\ Len(c.str) >= Len(p) /\ SubSeq(c.str, 1, Len(p)) = p

\* the .str accessor raises AttributeError on a column that holds no string
\* (read_csv made it float64 or int64)
StrAccessorRaises(T, col) ==
    T # <<>> /\ \A i \in DOMAIN T : ~IsStr(T[i].row[col])

\* address_mask without the length check on the receiver
address_mask_sender_only(r) ==
    /\ str_len_eq(r.sending_address, 42)
    /\ str_startswith(r.sending_address, "0x")
    /\ str_startswith(r.receiving_address, "0x")

\* lines 143-146
address_mask(r) ==
    /\ str_len_eq(r.sending_address, 42)
    /\ str_len_eq(r.receiving_address, 42)
    /\ str_startswith(r.sending_address, "0x")
    /\ str_startswith(r.receiving_address, "0x")

\* stage 1, lines 142-151
CleanAddresses(T) ==
    LET invalid_addresses == Cardinality({i \in DOMAIN T : ~address_mask(T[i].row)})
    IN  IF invalid_addresses > 0
        THEN SelectRows(T, {T[i].idx : i \in {j \in DOMAIN T : address_mask(T[j].row)}})
        ELSE T

\* float.__repr__ of q/4 for the values the model holds
FloatStr(q) ==
    IF q < 0 THEN "-" \o ToString((-q) \div 4) \o ".0"
    ELSE ToString(q \div 4) \o
         (CASE q % 4 = 0 -> ".0" [] q % 4 = 1 -> ".25" [] q % 4 = 2 -> ".5" [] OTHER -> ".75")

\* Series.astype(str) on one cell
astype_str(c) ==
    IF IsStr(c) THEN c
    ELSE IF c = Null THEN Str("nan")
    ELSE IF DOMAIN c = {"i64"} THEN Str(ToString(c.i64 \div 4))
    ELSE IF DOMAIN c = {"f64"} THEN Str(FloatStr(c.f64))
    ELSE Str("NaT")

\* the list of line 157 without '0'
InvalidIps_without_zero == {"0.0", "nan", "NaN", "None", "none"}

\* line 157
InvalidIps == {"0.0", "0", "nan", "NaN", "None", "none"}

\* stage 2, lines 155-162
CleanIp(T) ==
    LET asStr == SetColumn(T, "ip_prefix",
                           [i \in DOMAIN T |-> astype_str(T[i].row.ip_prefix)])
        mark(c) == IF isin(c, InvalidIps) THEN Str("INVALID_IP") ELSE c
    IN  SetColumn(asStr, "ip_prefix",
                  [i \in DOMAIN asStr |-> mark(asStr[i].row.ip_prefix)])

\* pd.to_numeric(errors='coerce') on one cell
to_numeric(c) ==
    IF IsNumber(c) THEN c
    ELSE IF IsStr(c) /\ IsNumeric(c.str) THEN F64(LiteralOf[c.str].q)
    ELSE Null

\* the ascending sort Series.median() starts from
RECURSIVE Insert(_, _)
Insert(x, s) ==
    IF s = <<>> THEN <<x>>
    ELSE IF x <= Head(s) THEN <<x>> \o s
    ELSE <<Head(s)>> \o Insert(x, Tail(s))
RECURSIVE Sorted(_)
Sorted(s) == IF s = <<>> THEN <<>> ELSE Insert(Head(s), Sorted(Tail(s)))

\* the non-missing numbers of a column, in row order
RECURSIVE Values(_, _)
Values(T, col) ==
    IF T = <<>> THEN <<>>
    ELSE IF isna(Head(T).row[col]) THEN Values(Tail(T), col)
    ELSE <<Val(Head(T).row[col])>> \o Values(Tail(T), col)

\* a median that takes the lower of the two middle values
Median_lower_middle(vals) ==
    LET n == Len(vals)
        s == Sorted(vals)
    IN  IF n = 0 THEN Null ELSE F64(s[(n + 1) \div 2])

\* Series.median(): skips NaN; NaN for an empty sample; the middle value, or the
\* mean of the two middle values (exact in quarters for the model's inputs)
Median(vals) ==
    LET n == Len(vals)
        s == Sorted(vals)
    IN  IF n = 0 THEN Null
        ELSE IF n % 2 = 1 THEN F64(s[(n + 1) \div 2])
        ELSE F64((s[n \div 2] + s[n \div 2 + 1]) \div 2)

\* df.groupby('location_region')[col].median(): one entry per non-null key
GroupMedians(T, col) ==
    LET keys == {T[i].row.location_region : i \in DOMAIN T} \ {Null}
    IN  [g \in keys |->
            Median(Values(SelectRows(T, {T[i].idx : i \in
                       {j \in DOMAIN T : T[j].row.location_region = g}}), col))]

\* the loop of lines 185-193 / 221-229 over the regions still to visit
RECURSIVE FillByRegion(_, _, _, _)
FillByRegion(T, col, medianas, todo) ==
    IF todo = {} THEN T
    ELSE LET regiao == CHOOSE g \in todo : TRUE
             mask(r) == r.location_region = regiao /\ isna(r[col])
             count_regiao == Cardinality({i \in DOMAIN T : mask(T[i].row)})
             filled == [i \in DOMAIN T |->
                           IF mask(T[i].row)
                           THEN [T[i] EXCEPT !.row[col] = medianas[regiao]]
                           ELSE T[i]]
         IN  FillByRegion(IF count_regiao > 0 THEN filled ELSE T,
                          col, medianas, todo \ {regiao})

\* lines 198-201 / 234-237
FillGlobal(T, col) ==
    LET remaining_missing == Cardinality({i \in DOMAIN T : isna(T[i].row[col])})
        mediana_global == Median(Values(T, col))
        fillna(c) == IF isna(c) THEN mediana_global ELSE c
    IN  IF remaining_missing > 0
        THEN SetColumn(T, col, [i \in DOMAIN T |-> fillna(T[i].row[col])])
        ELSE T

\* lines 178-202 / 214-238: per-region medians, then the global median
ImputeMedians(T, col) ==
    LET medianas_por_regiao == GroupMedians(T, col)
    IN  FillGlobal(FillByRegion(T, col, medianas_por_regiao,
                                DOMAIN medianas_por_regiao), col)

\* line 168
RiskSentinels == {"none", "None", "NULL", "null", ""}

\* stage 3, lines 166-202
CleanRiskScore(T) ==
    LET missing_count ==
            Cardinality({i \in DOMAIN T : isin(T[i].row.risk_score, RiskSentinels)})
        numeric == SetColumn(T, "risk_score",
                             [i \in DOMAIN T |-> to_numeric(T[i].row.risk_score)])
    IN  IF missing_count > 0 THEN ImputeMedians(numeric, "risk_score") ELSE numeric

\* stage 4 followed by a removal of the rows whose amount is below zero
CleanAmount_drop_negative(T) ==
    LET numeric == SetColumn(T, "amount",
                             [i \in DOMAIN T |-> to_numeric(T[i].row.amount)])
        amount_missing == Cardinality({i \in DOMAIN T : isna(numeric[i].row.amount)})
        filled == IF amount_missing > 0 THEN ImputeMedians(numeric, "amount") ELSE numeric
    IN  SelectRows(filled, {filled[i].idx : i \in
            {j \in DOMAIN filled : isna(filled[j].row.amount) \/ Val(filled[j].row.amount) >= 0}})

\* stage 4, lines 206-240
CleanAmount(T) ==
    LET numeric == SetColumn(T, "amount",
                             [i \in DOMAIN T |-> to_numeric(T[i].row.amount)])
        amount_missing == Cardinality({i \in DOMAIN T : isna(numeric[i].row.amount)})
    IN  IF amount_missing > 0 THEN ImputeMedians(numeric, "amount") ELSE numeric

\* pd.to_datetime(unit='s', errors='coerce') on one cell; a datetime64 column
\* is returned as it is
to_datetime(c) ==
    IF IsInstant(c) \/ c = NaT THEN c
    ELSE IF IsNumber(c) THEN Instant(Val(c))
    ELSE IF IsStr(c) /\ IsNumeric(c.str) THEN Instant(LiteralOf[c.str].q)
    ELSE NaT

\* stage 5 followed by a removal of the rows whose timestamp did not convert
CleanTimestamp_drop_nat(T) ==
    LET converted == SetColumn(T, "timestamp",
                               [i \in DOMAIN T |-> to_datetime(T[i].row.timestamp)])
    IN  SelectRows(converted, {converted[i].idx : i \in
            {j \in DOMAIN converted : converted[j].row.timestamp # NaT}})

\* stage 5, lines 244-255 (the future / ancient counts are only printed)
CleanTimestamp(T) ==
    SetColumn(T, "timestamp", [i \in DOMAIN T |-> to_datetime(T[i].row.timestamp)])

\* str.lower()
LowerChar ==
    [ch \in {"A", "B", "C", "D", "E", "F", "G", "H", "I", "J", "K", "L", "M", "N",
             "O", "P", "Q", "R", "S", "T", "U", "V", "W", "X", "Y", "Z"} |->
        CASE ch = "A" -> "a" [] ch = "B" -> "b" [] ch = "C" -> "c" [] ch = "D" -> "d"
          [] ch = "E" -> "e" [] ch = "F" -> "f" [] ch = "G" -> "g" [] ch = "H" -> "h"
          [] ch = "I" -> "i" [] ch = "J" -> "j" [] ch = "K" -> "k" [] ch = "L" -> "l"
          [] ch = "M" -> "m" [] ch = "N" -> "n" [] ch = "O" -> "o" [] ch = "P" -> "p"
          [] ch = "Q" -> "q" [] ch = "R" -> "r" [] ch = "S" -> "s" [] ch = "T" -> "t"
          [] ch = "U" -> "u" [] ch = "V" -> "v" [] ch = "W" -> "w" [] ch = "X" -> "x"
          [] ch = "Y" -> "y" [] OTHER -> "z"]
RECURSIVE lower(_)
lower(s) ==
    IF s = "" THEN ""
    ELSE LET ch == SubSeq(s, 1, 1)
         IN  (IF ch \in DOMAIN LowerChar THEN LowerChar[ch] ELSE ch)
             \o lower(SubSeq(s, 2, Len(s)))
str_lower(c) == Str(lower(c.str))

\* line 268
invalid_regions == {"0", "nan", "none", ""}

\* stage 6 testing the regions before it case-folds them
CleanRegion_filter_before_lower(T) ==
    LET lowered(c) == str_lower(astype_str(c))
        valid == {j \in DOMAIN T :
                     ~isin(astype_str(T[j].row.location_region), invalid_regions)}
        kept == SelectRows(T, {T[i].idx : i \in valid})
    IN  SetColumn(kept, "location_region",
                  [i \in DOMAIN kept |-> lowered(kept[i].row.location_region)])

\* stage 6, lines 259-272
CleanRegion(T) ==
    LET lowered(c) == str_lower(astype_str(c))
        low == SetColumn(T, "location_region",
                         [i \in DOMAIN T |-> lowered(T[i].row.location_region)])
        invalid_count ==
            Cardinality({i \in DOMAIN low : isin(low[i].row.location_region, invalid_regions)})
    IN  IF invalid_count > 0
        THEN SelectRows(low, {low[i].idx : i \in
                 {j \in DOMAIN low : ~isin(low[j].row.location_region, invalid_regions)}})
        ELSE low

\* stage 7, line 277: DataFrame.drop_duplicates(), keep='first', over all columns
RECURSIVE drop_duplicates(_, _)
drop_duplicates(T, seen) ==
    IF T = <<>> THEN <<>>
    ELSE IF Head(T).row \in seen THEN drop_duplicates(Tail(T), seen)
    ELSE <<Head(T)>> \o drop_duplicates(Tail(T), seen \cup {Head(T).row})
\* drop_duplicates(keep='last')
RemoveDuplicates_keep_last(T) ==
    SelectRows(T, {T[i].idx : i \in {j \in DOMAIN T :
        \A k \in DOMAIN T : k > j => T[k].row # T[j].row}})
RemoveDuplicates(T) == drop_duplicates(T, {})

\* the seven stages of enhanced_data_cleaning on a frame
enhanced_data_cleaning(T) ==
    RemoveDuplicates(CleanRegion(CleanTimestamp(CleanAmount(CleanRiskScore(
        CleanIp(CleanAddresses(T)))))))

-----------------------------------------------------------------------------
(* post_processing_checks, lines 290-345 *)

\* Series > n / Series < n on one cell of a numeric column: NaN compares False
gt(c, n) == IsNumber(c) /\ Val(c) > 4 * n
lt(c, n) == IsNumber(c) /\ Val(c) < 4 * n

\* lines 301-302 read as a & (b | c) & d
inconsistency_or_first(r) ==
    /\ gt(r.risk_score, 75)
    /\ (r.anomaly = Str("low_risk") \/ lt(r.risk_score, 25))
    /\ r.anomaly = Str("high_risk")

\* lines 301-302: & binds tighter than |
inconsistency(r) ==
    \/ (gt(r.risk_score, 75) /\ r.anomaly = Str("low_risk"))
    \/ (lt(r.risk_score, 25) /\ r.anomaly = Str("high_risk"))
\* lines 315-316
suspicious(r) == gt(r.amount, 50000) /\ r.age_group = Str("new")
\* line 328
negative_amounts(r) == lt(r.amount, 0)
\* line 338
long_sessions(r) == gt(r.session_duration, 500)

\* the index labels of the rows where a check's boolean mask is True
Flagged(T, mask) == {T[i].idx : i \in {j \in DOMAIN T : mask[j]}}

\* comparing an object column with a number raises TypeError
CompareRaises(T, col) == \E i \in DOMAIN T : IsStr(T[i].row[col])

post_processing_checks(T) ==
    LET flagged == <<Flagged(T, [i \in DOMAIN T |-> inconsistency(T[i].row)]),
                     Flagged(T, [i \in DOMAIN T |-> suspicious(T[i].row)]),
                     Flagged(T, [i \in DOMAIN T |-> negative_amounts(T[i].row)]),
                     Flagged(T, [i \in DOMAIN T |-> long_sessions(T[i].row)])>>
    IN  [total |-> Len(flagged),
         passed |-> Cardinality({k \in DOMAIN flagged : flagged[k] = {}}),
         flagged |-> flagged]

-----------------------------------------------------------------------------
(* the reports, lines 402-436 *)

\* line 404 without the statistics: the regions and how many risk scores each has
Tabela1(T) ==
    {[location_region |-> g,
      count |-> Cardinality({i \in DOMAIN T :
                   T[i].row.location_region = g /\ ~isna(T[i].row.risk_score)})]
        : g \in {T[i].row.location_region : i \in DOMAIN T} \ {Null}}

RemoveAt(s, i) == SubSeq(s, 1, i - 1) \o SubSeq(s, i + 1, Len(s))

\* Series.sort_values(): quicksort, which is not stable, so rows with equal keys
\* come out in any order; this is every order it can produce for the rows, each
\* with its key
RECURSIVE SortOrders(_)
SortOrders(keyed) ==
    IF keyed = <<>> THEN {<<>>}
    ELSE LET first == {i \in DOMAIN keyed :
                          \A j \in DOMAIN keyed : keyed[i].key <= keyed[j].key}
         IN  UNION {{<<keyed[i].item>> \o rest : rest \in SortOrders(RemoveAt(keyed, i))}
                        : i \in first}

\* the rows with / without a value in col, in order
WithValue(T, col) == SelectRows(T, {T[i].idx : i \in {j \in DOMAIN T : ~isna(T[j].row[col])}})
WithoutValue(T, col) == SelectRows(T, {T[i].idx : i \in {j \in DOMAIN T : isna(T[j].row[col])}})

\* line 419: ascending by timestamp, NaT rows last in their own order
sort_values_timestamp(T) ==
    LET dated == WithValue(T, "timestamp")
        keyed == [i \in DOMAIN dated |->
                     [key |-> dated[i].row.timestamp.instant, item |-> dated[i]]]
    IN  {o \o WithoutValue(T, "timestamp") : o \in SortOrders(keyed)}

\* line 420: drop_duplicates(subset='receiving_address', keep='last')
latest_per_address(T) ==
    SelectRows(T, {T[i].idx : i \in {j \in DOMAIN T :
        \A k \in DOMAIN T : k > j => T[k].row.receiving_address # T[j].row.receiving_address}})

\* the order of nlargest's fast path: descending by amount, mergesort (stable),
\* so equal amounts stay in their order
RECURSIVE InsertDesc(_, _)
InsertDesc(x, s) ==
    IF s = <<>> THEN <<x>>
    ELSE IF Val(x.row.amount) >= Val(Head(s).row.amount) THEN <<x>> \o s
    ELSE <<Head(s)>> \o InsertDesc(x, Tail(s))
RECURSIVE StableDesc(_)
StableDesc(s) == IF s = <<>> THEN <<>> ELSE InsertDesc(Head(s), StableDesc(Tail(s)))

Take(s, n) == SubSeq(s, 1, IF n < Len(s) THEN n ELSE Len(s))

\* DataFrame.nlargest(n, 'amount'): with n >= len it is sort_values(descending)
\* .head(n), else the fast path; rows without an amount come last either way
nlargest(T, n) ==
    LET valued == WithValue(T, "amount")
        keyed == [i \in DOMAIN valued |->
                     [key |-> 0 - Val(valued[i].row.amount), item |-> valued[i]]]
    IN  IF n >= Len(T)
        THEN {Take(o \o WithoutValue(T, "amount"), n) : o \in SortOrders(keyed)}
        ELSE {Take(StableDesc(WithValue(T, "amount")) \o WithoutValue(T, "amount"), n)}

\* [['receiving_address', 'amount', 'timestamp']]
ReportColumns(T) ==
    [i \in DOMAIN T |->
        [idx |-> T[i].idx,
         row |-> [col \in {"receiving_address", "amount", "timestamp"} |-> T[i].row[col]]]]

\* lines 416-429: every table the report can come out as
Tabela2(T) ==
    LET sales_df == SelectRows(T, {T[i].idx : i \in
                        {j \in DOMAIN T : T[j].row.transaction_type = Str("sale")}})
    IN  IF Len(sales_df) > 0
        THEN UNION {LET latest_sales == latest_per_address(sorted)
                    IN  IF Len(latest_sales) >= 3
                        THEN {ReportColumns(top) : top \in nlargest(latest_sales, 3)}
                        ELSE {ReportColumns(latest_sales)}
                        : sorted \in sort_values_timestamp(sales_df)}
        ELSE {<<>>}

-----------------------------------------------------------------------------
(* run_enhanced_data_pipeline, lines 347-473, and __main__, lines 485-492 *)

\* a variable holding a DataFrame holds Frame(rows), or None
Frame(T) == [frame |-> T]
\* the file at file_path
Csv(raw) == [csv |-> raw]
Malformed == [malformed |-> TRUE]
NotReturned == [returned |-> FALSE]
Returned(a, b, c) == [returned |-> TRUE, df_cleaned |-> a, tabela1 |-> b, tabela2 |-> c]

\* a call enhanced_data_cleaning(df): the frame it returns, or Raised when
\* line 143 or line 286 raises
Raised == [raised |-> TRUE]
CleanCall(T) ==
    IF \/ StrAccessorRaises(T, "sending_address")
       \/ StrAccessorRaises(T, "receiving_address")
       \/ Len(T) = 0
    THEN Raised
    ELSE Frame(enhanced_data_cleaning(T))

\* line 356 raises FileNotFoundError: lines 466-468
LoadNotFound ==
    /\ pc = "load" /\ source = NoFile
    /\ error' = Str("FileNotFoundError")
    /\ result' = Returned(None, None, None)
    /\ pc' = "returned"
    /\ UNCHANGED <<source, df, df_clean, initial_count, removed_count, checks,
                   tabela1, tabela2, saved>>

\* line 356 raises another error (EmptyDataError, ParserError): on to line 469
LoadFails ==
    /\ pc = "load" /\ source = Malformed
    /\ pc' = "raised"
    /\ UNCHANGED <<source, df, df_clean, initial_count, removed_count, checks,
                   tabela1, tabela2, result, error, saved>>

\* lines 356-364 and 137-138; the analysis and validate_data_quality only print
Load ==
    /\ pc = "load" /\ source \notin {NoFile, Malformed}
    /\ df' = Frame(read_csv(source.csv))
    /\ df_clean' = df'
    /\ initial_count' = Len(df'.frame)
    /\ pc' = "addresses"
    /\ UNCHANGED <<source, removed_count, checks, tabela1, tabela2, result, error, saved>>

\* lines 142-151; .str raises on a column that holds no string
StageAddresses ==
    /\ pc = "addresses"
    /\ IF StrAccessorRaises(df_clean.frame, "sending_address")
            \/ StrAccessorRaises(df_clean.frame, "receiving_address")
       THEN pc' = "raised" /\ UNCHANGED df_clean
       ELSE pc' = "ip" /\ df_clean' = Frame(CleanAddresses(df_clean.frame))
    /\ UNCHANGED <<source, df, initial_count, removed_count, checks,
                   tabela1, tabela2, result, error, saved>>

\* lines 155-162
StageIp ==
    /\ pc = "ip"
    /\ df_clean' = Frame(CleanIp(df_clean.frame))
    /\ pc' = "risk_score"
    /\ UNCHANGED <<source, df, initial_count, removed_count, checks,
                   tabela1, tabela2, result, error, saved>>

\* lines 166-202
StageRiskScore ==
    /\ pc = "risk_score"
    /\ df_clean' = Frame(CleanRiskScore(df_clean.frame))
    /\ pc' = "amount"
    /\ UNCHANGED <<source, df, initial_count, removed_count, checks,
                   tabela1, tabela2, result, error, saved>>

\* lines 206-240
StageAmount ==
    /\ pc = "amount"
    /\ df_clean' = Frame(CleanAmount(df_clean.frame))
    /\ pc' = "timestamp"
    /\ UNCHANGED <<source, df, initial_count, removed_count, checks,
                   tabela1, tabela2, result, error, saved>>

\* lines 244-255
StageTimestamp ==
    /\ pc = "timestamp"
    /\ df_clean' = Frame(CleanTimestamp(df_clean.frame))
    /\ pc' = "region"
    /\ UNCHANGED <<source, df, initial_count, removed_count, checks,
                   tabela1, tabela2, result, error, saved>>

\* lines 259-272
StageRegion ==
    /\ pc = "region"
    /\ df_clean' = Frame(CleanRegion(df_clean.frame))
    /\ pc' = "duplicates"
    /\ UNCHANGED <<source, df, initial_count, removed_count, checks,
                   tabela1, tabela2, result, error, saved>>

\* lines 276-281
StageDuplicates ==
    /\ pc = "duplicates"
    /\ df_clean' = Frame(RemoveDuplicates(df_clean.frame))
    /\ pc' = "counts"
    /\ UNCHANGED <<source, df, initial_count, removed_count, checks,
                   tabela1, tabela2, result, error, saved>>

\* lines 283-288: line 286 divides by initial_count
CleanReturns ==
    /\ pc = "counts"
    /\ removed_count' = initial_count - Len(df_clean.frame)
    /\ pc' = IF initial_count = 0 THEN "raised" ELSE "checks"
    /\ UNCHANGED <<source, df, df_clean, initial_count, checks, tabela1, tabela2,
                   result, error, saved>>

\* line 380
PostProcessingChecks ==
    /\ pc = "checks"
    /\ IF CompareRaises(df_clean.frame, "session_duration")
       THEN pc' = "raised" /\ UNCHANGED checks
       ELSE pc' = "reports" /\ checks' = post_processing_checks(df_clean.frame)
    /\ UNCHANGED <<source, df, df_clean, initial_count, removed_count,
                   tabela1, tabela2, result, error, saved>>

\* lines 402-436
Reports ==
    /\ pc = "reports"
    /\ tabela1' = Frame(Tabela1(df_clean.frame))
    /\ \E report \in Tabela2(df_clean.frame) : tabela2' = Frame(report)
    /\ pc' = "return"
    /\ UNCHANGED <<source, df, df_clean, initial_count, removed_count, checks,
                   result, error, saved>>

\* line 464
Return ==
    /\ pc = "return"
    /\ result' = Returned(df_clean, tabela1, tabela2)
    /\ pc' = "returned"
    /\ UNCHANGED <<source, df, df_clean, initial_count, removed_count, checks,
                   tabela1, tabela2, error, saved>>

\* lines 469-473
HandleException ==
    /\ pc = "raised"
    /\ error' = Str("Exception")
    /\ result' = Returned(None, None, None)
    /\ pc' = "returned"
    /\ UNCHANGED <<source, df, df_clean, initial_count, removed_count, checks,
                   tabela1, tabela2, saved>>

\* save_df_clean without the test of line 477
save_df_clean_unguarded ==
    /\ pc = "returned"
    /\ saved' = result.df_cleaned
    /\ pc' = "done"
    /\ UNCHANGED <<source, df, df_clean, initial_count, removed_count, checks,
                   tabela1, tabela2, result, error>>

\* save_df_clean(df_processed), lines 475-482 and 488: saved is the frame
\* handed to to_csv
save_df_clean ==
    /\ pc = "returned"
    /\ saved' = IF result.df_cleaned # None THEN result.df_cleaned ELSE saved
    /\ pc' = "done"
    /\ UNCHANGED <<source, df, df_clean, initial_count, removed_count, checks,
                   tabela1, tabela2, result, error>>

Next ==
    \/ LoadNotFound
    \/ LoadFails
    \/ Load
    \/ StageAddresses
    \/ StageIp
    \/ StageRiskScore
    \/ StageAmount
    \/ StageTimestamp
    \/ StageRegion
    \/ StageDuplicates
    \/ CleanReturns
    \/ PostProcessingChecks
    \/ Reports
    \/ Return
    \/ HandleException
    \/ save_df_clean

-----------------------------------------------------------------------------
(* The inputs: the CSV file at file_path, absent, unreadable or a few rows *)

\* the most data rows of a file whose rows are drawn in every order
MaxRows == 3
\* the most data rows of a file drawn as a bag of rows (one order per bag)
MaxBagRows == 4
\* the most data rows of a file of distinct sale rows
MaxSaleRows == 5

Addr1 == "0x1111111111111111111111111111111111111111"
Addr2 == "0x2222222222222222222222222222222222222222"
Addr3 == "0x3333333333333333333333333333333333333333"
Addr4 == "0x4444444444444444444444444444444444444444"
Short41 == "0x555555555555555555555555555555555555555"
Long43 == "0x66666666666666666666666666666666666666666"
NoPrefix42 == "1x7777777777777777777777777777777777777777"

DefaultRow ==
    [sending_address |-> Addr1, receiving_address |-> Addr2, ip_prefix |-> "10.5",
     transaction_type |-> "transfer", location_region |-> "Europe",
     age_group |-> "established", anomaly |-> "moderate_risk", amount |-> "50",
     session_duration |-> "30", risk_score |-> "50", timestamp |-> "100"]

\* the files of 0 .. n rows drawn from rows, in every order, repeats allowed
Files(rows, n) == UNION {[1 .. k -> rows] : k \in 0 .. n}

\* the files of 0 .. n rows of the list, one file per bag of rows
RECURSIVE Ascending(_, _, _)
Ascending(k, lo, hi) ==
    IF k = 0 THEN {<<>>}
    ELSE UNION {{<<i>> \o rest : rest \in Ascending(k - 1, i, hi)} : i \in lo .. hi}
BagFiles(list, n) ==
    {[j \in DOMAIN picks |-> list[picks[j]]]
        : picks \in UNION {Ascending(k, 1, Len(list)) : k \in 0 .. n}}

\* the files of 0 .. n distinct rows drawn from rows, in every order
DistinctFiles(rows, n) ==
    {f \in Files(rows, n) : \A i, j \in DOMAIN f : i # j => f[i] # f[j]}

Start(files) ==
    /\ source \in {NoFile, Malformed} \cup {Csv(raw) : raw \in files}
    /\ pc = "load"
    /\ df = None
    /\ df_clean = None
    /\ initial_count = 0
    /\ removed_count = 0
    /\ checks = None
    /\ tabela1 = None
    /\ tabela2 = None
    /\ result = NotReturned
    /\ error = None
    /\ saved = NotWritten

\* rows with one defect each, of the kinds the stages look for
MixedRows ==
    {DefaultRow,
     [DefaultRow EXCEPT !.location_region = "EUROPE"],
     [DefaultRow EXCEPT !.location_region = "NONE"],
     [DefaultRow EXCEPT !.ip_prefix = "none"],
     [DefaultRow EXCEPT !.ip_prefix = "INVALID_IP"],
     [DefaultRow EXCEPT !.risk_score = "none"],
     [DefaultRow EXCEPT !.amount = "abc"],
     [DefaultRow EXCEPT !.timestamp = "soon"],
     [DefaultRow EXCEPT !.sending_address = Short41],
     [DefaultRow EXCEPT !.session_duration = "long"]}

Init == Start(Files(MixedRows, MaxRows))
Spec == Init /\ [][Next]_vars

\* stage 1: every pairing of a sound or unsound sender and receiver
AddressRows ==
    {[DefaultRow EXCEPT !.sending_address = s, !.receiving_address = r]
        : s \in {Addr1, Short41, ""}, r \in {Addr2, NoPrefix42, Long43}}
InitAddresses == Start(Files(AddressRows, MaxRows))
SpecAddresses == InitAddresses /\ [][Next]_vars

\* stage 2: the texts of an ip_prefix cell
IpRows ==
    {[DefaultRow EXCEPT !.ip_prefix = ip]
        : ip \in {"10.5", "0", "0.0", "", "None", "NONE", "Nan", "none", "INVALID_IP"}}
InitIp == Start(Files(IpRows, MaxRows))
SpecIp == InitIp /\ [][Next]_vars

\* stages 3 and 4: a region (or none) with a number or a missing value
RegionTexts == <<"Europe", "Asia", "">>
ImputeRows(col, texts) ==
    [k \in 1 .. Len(RegionTexts) * Len(texts) |->
        [DefaultRow EXCEPT !.location_region = RegionTexts[((k - 1) \div Len(texts)) + 1],
                           ![col] = texts[((k - 1) % Len(texts)) + 1]]]
InitRiskScore ==
    Start(BagFiles(ImputeRows("risk_score", <<"10", "20", "60", "none", "">>), MaxBagRows))
SpecRiskScore == InitRiskScore /\ [][Next]_vars
InitAmount ==
    Start(BagFiles(ImputeRows("amount", <<"10", "20", "60", "abc", "">>), MaxBagRows))
SpecAmount == InitAmount /\ [][Next]_vars

\* stage 6: the texts of a location_region cell
RegionRows ==
    {[DefaultRow EXCEPT !.location_region = reg]
        : reg \in {"Europe", "EUROPE", "europe", "Asia", "NONE", "none", "0", ""}}
    \cup {[DefaultRow EXCEPT !.sending_address = Short41],
          [DefaultRow EXCEPT !.sending_address = Short41, !.location_region = "NONE"]}
InitRegion == Start(Files(RegionRows, MaxRows))
SpecRegion == InitRegion /\ [][Next]_vars

\* the top-sales report: sales to four addresses, early and late, dated or not
SaleRow(to, ts, amount, type) ==
    [DefaultRow EXCEPT !.receiving_address = to, !.timestamp = ts, !.amount = amount,
                       !.transaction_type = type]
SaleRows ==
    {SaleRow(Addr1, "200", "10", "sale"),
     SaleRow(Addr1, "100", "40", "sale"),
     SaleRow(Addr1, "200", "25", "sale"),
     SaleRow(Addr1, "", "50", "sale"),
     SaleRow(Addr2, "100", "20", "sale"),
     SaleRow(Addr2, "200", "60", "transfer"),
     SaleRow(Addr3, "100", "30", "sale"),
     SaleRow(Addr4, "200", "20", "sale")}
InitSales == Start(DistinctFiles(SaleRows, MaxSaleRows))
SpecSales == InitSales /\ [][Next]_vars

\* post_processing_checks: rows on each side of each threshold
CheckRows ==
    {[DefaultRow EXCEPT !.risk_score = "90", !.anomaly = "low_risk"],
     [DefaultRow EXCEPT !.risk_score = "90", !.anomaly = "high_risk"],
     [DefaultRow EXCEPT !.risk_score = "10", !.anomaly = "high_risk"],
     [DefaultRow EXCEPT !.risk_score = "10", !.anomaly = "low_risk"],
     [DefaultRow EXCEPT !.risk_score = "75", !.anomaly = "low_risk"],
     [DefaultRow EXCEPT !.risk_score = "25", !.anomaly = "high_risk"],
     [DefaultRow EXCEPT !.amount = "50001", !.age_group = "new"],
     [DefaultRow EXCEPT !.amount = "-5"],
     [DefaultRow EXCEPT !.session_duration = "501"]}
InitChecks == Start(Files(CheckRows, MaxRows))
SpecChecks == InitChecks /\ [][Next]_vars

\* amounts below, at and above zero, missing and unconvertible, and rows that
\* stages 1 and 6 remove
NegativeRows ==
    {DefaultRow,
     [DefaultRow EXCEPT !.amount = "-5"],
     [DefaultRow EXCEPT !.amount = "0"],
     [DefaultRow EXCEPT !.amount = ""],
     [DefaultRow EXCEPT !.amount = "abc"],
     [DefaultRow EXCEPT !.amount = "-5", !.sending_address = Short41],
     [DefaultRow EXCEPT !.amount = "-5", !.location_region = "0"]}
InitNegative == Start(Files(NegativeRows, MaxRows))
SpecNegative == InitNegative /\ [][Next]_vars

-----------------------------------------------------------------------------
(* The claims *)

\* the row of the frame read from the file that carries index label idx
Original(idx) == df.frame[idx + 1].row
\* the index labels of a frame
Labels(T) == {T[i].idx : i \in DOMAIN T}
\* the labels of a frame are in ascending order: the frame keeps the file's order
InFileOrder(T) == \A i, j \in DOMAIN T : i < j => T[i].idx < T[j].idx

\* stage 1 has run and the cleaning has not raised since
PastAddresses ==
    pc \in {"ip", "risk_score", "amount", "timestamp", "region", "duplicates",
            "counts", "checks", "reports", "return"}

\* an address as the specification wants it: 42 characters, the first two 0x
SoundAddress(c) == IsStr(c) /\ Len(c.str) = 42 /\ SubSeq(c.str, 1, 2) = "0x"
SoundAddresses(r) == SoundAddress(r.sending_address) /\ SoundAddress(r.receiving_address)

\* C4: from stage 1 on, and in the table the pipeline returns, both addresses
\* of every row are 42 characters long and begin with 0x; right after stage 1
\* the table is the rows of the input with two such addresses, each unchanged
\* and in the input's order: no unsound row stays and no sound row is removed.
C4_AddressFilter ==
    /\ PastAddresses =>
          \A i \in DOMAIN df_clean.frame : SoundAddresses(df_clean.frame[i].row)
    /\ (result # NotReturned /\ result.df_cleaned # None) =>
          \A i \in DOMAIN result.df_cleaned.frame :
              SoundAddresses(result.df_cleaned.frame[i].row)
    /\ pc = "ip" =>
          /\ Labels(df_clean.frame) =
                 {r.idx : r \in {q \in Range(df.frame) : SoundAddresses(q.row)}}
          /\ InFileOrder(df_clean.frame)
          /\ \A i \in DOMAIN df_clean.frame :
                 df_clean.frame[i].row = Original(df_clean.frame[i].idx)

\* C4 witness: stage 1 removed a row whose sender is 41 characters long and
\* kept another row
C4_Witness ==
    /\ pc = "ip"
    /\ \E i \in DOMAIN df.frame :
          /\ df.frame[i].row.sending_address = Str(Short41)
          /\ df.frame[i].idx \notin Labels(df_clean.frame)
    /\ df_clean.frame # <<>>

\* the text of a cell of the input: what astype(str) makes of it
TextOf(c) == astype_str(c).str

\* C5 as the specification states it: after stage 2 an ip_prefix whose text
\* is, ignoring case, 0.0, 0, nan or none is INVALID_IP, and every other
\* ip_prefix is its own text.
C5_IpIgnoringCase ==
    pc = "risk_score" =>
        \A i \in DOMAIN df_clean.frame :
            LET text == TextOf(Original(df_clean.frame[i].idx).ip_prefix)
            IN  df_clean.frame[i].row.ip_prefix =
                    IF lower(text) \in {"0.0", "0", "nan", "none"}
                    THEN Str("INVALID_IP") ELSE Str(text)

\* C5 amended: after stage 2 an ip_prefix whose text is exactly one of 0.0,
\* 0, nan, NaN, None, none is INVALID_IP, and every other ip_prefix, another
\* capitalisation such as NONE or Nan included, is its own text.
C5_IpExactTexts ==
    pc = "risk_score" =>
        \A i \in DOMAIN df_clean.frame :
            LET text == TextOf(Original(df_clean.frame[i].idx).ip_prefix)
            IN  df_clean.frame[i].row.ip_prefix =
                    IF text \in {"0.0", "0", "nan", "NaN", "None", "none"}
                    THEN Str("INVALID_IP") ELSE Str(text)

\* C5 witness: stage 2 left a NONE as it was, and rewrote a 0 and a missing cell
C5_Witness ==
    /\ pc = "risk_score"
    /\ \E i \in DOMAIN df_clean.frame :
          /\ Original(df_clean.frame[i].idx).ip_prefix = Str("NONE")
          /\ df_clean.frame[i].row.ip_prefix = Str("NONE")
    /\ \E i \in DOMAIN df_clean.frame :
          /\ Original(df_clean.frame[i].idx).ip_prefix = Str("0")
          /\ df_clean.frame[i].row.ip_prefix = Str("INVALID_IP")
    /\ \E i \in DOMAIN df_clean.frame :
          /\ Original(df_clean.frame[i].idx).ip_prefix = Null
          /\ df_clean.frame[i].row.ip_prefix = Str("INVALID_IP")

\* stage 6 has run and the cleaning has not raised since
PastRegion == pc \in {"duplicates", "counts", "checks", "reports", "return"}

\* C6: from stage 6 on, and in the table the pipeline returns, every
\* location_region is the lowercase text of the input row's region and is none
\* of 0, nan, none and the empty text; right after stage 6 the table holds
\* exactly the rows stage 1 kept whose lowercased region is none of those, so
\* a NONE or a missing region is gone and Europe is kept as europe.
C6_RegionNormalised ==
    /\ PastRegion =>
          \A i \in DOMAIN df_clean.frame :
              /\ df_clean.frame[i].row.location_region =
                     Str(lower(TextOf(Original(df_clean.frame[i].idx).location_region)))
              /\ df_clean.frame[i].row.location_region.str \notin {"0", "nan", "none", ""}
    /\ (result # NotReturned /\ result.df_cleaned # None) =>
          \A i \in DOMAIN result.df_cleaned.frame :
              result.df_cleaned.frame[i].row.location_region.str
                  \notin {"0", "nan", "none", ""}
    /\ pc = "duplicates" =>
          /\ Labels(df_clean.frame) =
                 {r.idx : r \in {q \in Range(df.frame) :
                     /\ SoundAddresses(q.row)
                     /\ lower(TextOf(q.row.location_region)) \notin {"0", "nan", "none", ""}}}
          /\ InFileOrder(df_clean.frame)

\* C6 witness: stage 6 removed a row of region NONE and one with no region,
\* and kept a row of region Europe as europe
C6_Witness ==
    /\ pc = "duplicates"
    /\ \E i \in DOMAIN df.frame :
          /\ df.frame[i].row.location_region = Str("NONE")
          /\ SoundAddresses(df.frame[i].row)
          /\ df.frame[i].idx \notin Labels(df_clean.frame)
    /\ \E i \in DOMAIN df.frame :
          /\ df.frame[i].row.location_region = Null
          /\ SoundAddresses(df.frame[i].row)
          /\ df.frame[i].idx \notin Labels(df_clean.frame)
    /\ \E i \in DOMAIN df_clean.frame :
          /\ Original(df_clean.frame[i].idx).location_region = Str("Europe")
          /\ df_clean.frame[i].row.location_region = Str("europe")

\* the table stages 1 to 6 make of the input
BeforeDuplicates ==
    CleanRegion(CleanTimestamp(CleanAmount(CleanRiskScore(CleanIp(
        CleanAddresses(df.frame))))))

\* stage 7 has run and the cleaning has not raised since
PastDuplicates == pc \in {"counts", "checks", "reports", "return"}

\* C7: from stage 7 on, and in the table the pipeline returns, no two rows
\* are equal in all columns; right after stage 7 the table is the rows of the
\* table stages 1 to 6 made, each unchanged and in order, that equal no
\* earlier row of it: of equal rows the first stays, and rows that differ in
\* a column all stay.
C7_DuplicatesRemoved ==
    /\ PastDuplicates =>
          \A i, j \in DOMAIN df_clean.frame :
              i # j => df_clean.frame[i].row # df_clean.frame[j].row
    /\ (result # NotReturned /\ result.df_cleaned # None) =>
          \A i, j \in DOMAIN result.df_cleaned.frame :
              i # j => result.df_cleaned.frame[i].row # result.df_cleaned.frame[j].row
    /\ pc = "counts" =>
          LET pre == BeforeDuplicates
          IN  /\ Labels(df_clean.frame) =
                     {pre[p].idx : p \in {q \in DOMAIN pre :
                         \A e \in 1 .. q - 1 : pre[e].row # pre[q].row}}
              /\ InFileOrder(df_clean.frame)
              /\ \A i \in DOMAIN df_clean.frame :
                     \E p \in DOMAIN pre : pre[p] = df_clean.frame[i]

\* C7 witness: stage 7 removed the second of two rows that differed in the
\* file and became equal in the cleaning, and kept two rows
C7_Witness ==
    /\ pc = "counts"
    /\ Len(df_clean.frame) >= 2
    /\ \E p, q \in DOMAIN BeforeDuplicates :
          /\ p < q
          /\ BeforeDuplicates[p].row = BeforeDuplicates[q].row
          /\ Original(BeforeDuplicates[p].idx) # Original(BeforeDuplicates[q].idx)
          /\ BeforeDuplicates[p].idx \in Labels(df_clean.frame)
          /\ BeforeDuplicates[q].idx \notin Labels(df_clean.frame)

\* the number of a numeric cell is above / below n
Above(c, n) == IsNumber(c) /\ Val(c) > 4 * n
Below(c, n) == IsNumber(c) /\ Val(c) < 4 * n
\* the four checks as the specification words them
Mismatch(r) ==
    \/ (Above(r.risk_score, 75) /\ r.anomaly = Str("low_risk"))
    \/ (Below(r.risk_score, 25) /\ r.anomaly = Str("high_risk"))
LargeFromNew(r) == Above(r.amount, 50000) /\ r.age_group = Str("new")
Negative(r) == Below(r.amount, 0)
LongSession(r) == Above(r.session_duration, 500)

\* C9: once the checks have run, the mismatch check has flagged exactly the
\* rows with (risk_score > 75 and anomaly low_risk) or (risk_score < 25 and
\* anomaly high_risk); passed is the number of the four checks that flagged no
\* row, so passed <= total, and passed = total exactly when no check flags a
\* row; a row with risk_score 90 and low_risk makes passed < total; and the
\* table is still the one the cleaning made.
C9_ConsistencyChecks ==
    pc = "reports" =>
        LET T == df_clean.frame
            rows == Range(T)
        IN  /\ checks.flagged[1] = {r.idx : r \in {q \in rows : Mismatch(q.row)}}
            /\ checks.total = 4
            /\ checks.passed =
                   (IF \E r \in rows : Mismatch(r.row) THEN 0 ELSE 1)
                   + (IF \E r \in rows : LargeFromNew(r.row) THEN 0 ELSE 1)
                   + (IF \E r \in rows : Negative(r.row) THEN 0 ELSE 1)
                   + (IF \E r \in rows : LongSession(r.row) THEN 0 ELSE 1)
            /\ checks.passed <= checks.total
            /\ (checks.passed = checks.total) <=>
                   \A r \in rows : ~(Mismatch(r.row) \/ LargeFromNew(r.row)
                                     \/ Negative(r.row) \/ LongSession(r.row))
            /\ (\E r \in rows : /\ IsNumber(r.row.risk_score)
                                /\ Val(r.row.risk_score) = 4 * 90
                                /\ r.row.anomaly = Str("low_risk"))
                   => checks.passed < checks.total
            /\ T = enhanced_data_cleaning(df.frame)

\* C9 witness: the checks flagged a row with risk_score 90 and low_risk and
\* no other row of a table that also holds a row with risk_score 90 and
\* high_risk, and three of the four checks passed
C9_Witness ==
    /\ pc = "reports"
    /\ \E r \in Range(df_clean.frame) :
          /\ Val(r.row.risk_score) = 4 * 90
          /\ r.row.anomaly = Str("low_risk")
          /\ checks.flagged[1] = {r.idx}
    /\ \E r \in Range(df_clean.frame) :
          /\ Val(r.row.risk_score) = 4 * 90
          /\ r.row.anomaly = Str("high_risk")
    /\ checks.passed = 3

\* C10: a run that caught an error (the missing file, or any failure of the
\* loading or the processing) returns None for the cleaned table and both
\* reports and never writes the sink; a missing, unreadable or empty file ends
\* that way; and the sink is only ever written with a cleaned table that the
\* pipeline returned and that is not None.
C10_FatalPath ==
    /\ error # None => (result = Returned(None, None, None) /\ saved = NotWritten)
    /\ pc = "raised" => saved = NotWritten
    /\ (pc \in {"returned", "done"}
            /\ (source \in {NoFile, Malformed} \/ source = Csv(<<>>)))
           => (error # None /\ result = Returned(None, None, None))
    /\ (pc \in {"returned", "done"} /\ error = None)
           => result = Returned(df_clean, tabela1, tabela2)
    /\ saved # NotWritten =>
           (result # NotReturned /\ result.df_cleaned # None
               /\ saved = result.df_cleaned)

\* C10 witness: the run on a missing file is over, it returned three None and
\* the sink is unwritten
C10_Witness ==
    /\ pc = "done"
    /\ source = NoFile
    /\ error = Str("FileNotFoundError")
    /\ result = Returned(None, None, None)
    /\ saved = NotWritten

\* a cell of a numeric column of the input that is missing: a null, or a text
\* that is no number (a null-sentinel such as none, or any other text)
MissingNumber(c) == c = Null \/ (IsStr(c) /\ ~IsNumeric(c.str))
\* the number (in quarters) of a cell that is not missing
NumberOf(c) == IF IsStr(c) THEN LiteralOf[c.str].q ELSE Val(c)

\* x is the k-th smallest of the numbers f[d]
KthSmallest(x, f, k) ==
    /\ \E d \in DOMAIN f : f[d] = x
    /\ Cardinality({d \in DOMAIN f : f[d] < x}) < k
    /\ k <= Cardinality({d \in DOMAIN f : f[d] <= x})
\* m is the median of the numbers f[d]: the mean of the two middle ones, which
\* are the same one when their count is odd
IsMedian(m, f) ==
    LET n == Cardinality(DOMAIN f)
    IN  \E lo, hi \in {f[d] : d \in DOMAIN f} :
            /\ KthSmallest(lo, f, (n + 1) \div 2)
            /\ KthSmallest(hi, f, n \div 2 + 1)
            /\ 2 * m = lo + hi
MedianOf(f) ==
    LET nums == {f[d] : d \in DOMAIN f}
        least == CHOOSE x \in nums : \A y \in nums : x <= y
        most == CHOOSE x \in nums : \A y \in nums : y <= x
    IN  CHOOSE m \in least .. most : IsMedian(m, f)

\* the two-pass imputation of column col as the specification states it, of
\* the table T against the input: a cell that was not missing holds its
\* number; a missing cell holds the median of the non-missing cells of the
\* rows of T with its region when there are any; otherwise it holds the median
\* of all the cells that have a number after that first pass, when there are
\* any (with no number in the whole column there is no median to take)
ImputedAsSpecified(T, col) ==
    LET region(l) == Original(l).location_region
        present == {l \in Labels(T) : ~MissingNumber(Original(l)[col])}
        peers(l) == {k \in present : region(l) # Null /\ region(k) = region(l)}
        sample(S) == [k \in S |-> NumberOf(Original(k)[col])]
        firstPass == [l \in {k \in Labels(T) : k \in present \/ peers(k) # {}} |->
                         IF l \in present THEN NumberOf(Original(l)[col])
                         ELSE MedianOf(sample(peers(l)))]
    IN  \A i \in DOMAIN T :
            LET l == T[i].idx
                cell == T[i].row[col]
            IN  IF l \in present
                THEN IsNumber(cell) /\ Val(cell) = NumberOf(Original(l)[col])
                ELSE IF peers(l) # {}
                THEN IsNumber(cell) /\ IsMedian(Val(cell), sample(peers(l)))
                ELSE IF DOMAIN firstPass # {}
                THEN IsNumber(cell) /\ IsMedian(Val(cell), firstPass)
                ELSE cell = Null

\* C1 as the specification states it: after stage 3 every risk_score that was
\* missing (a null, a null-sentinel, a text that is no number) holds the
\* median of its region, or the global median when the region has no number
\* or is missing, and every other risk_score holds its number.
C1_RiskScoreImputed ==
    pc = "amount" => ImputedAsSpecified(df_clean.frame, "risk_score")

\* C2: after stage 4 every amount that was missing or no number holds the
\* median of the non-missing amounts of its region, or, when the region has
\* none or is missing, the median of the amounts present after the regional
\* pass; every other amount holds its number.
C2_AmountImputed ==
    pc = "timestamp" => ImputedAsSpecified(df_clean.frame, "amount")

\* C2 witness: stage 4 gave a missing amount the median 15 of its region's 10
\* and 20, and gave a missing amount of a region with no amount a number
C2_Witness ==
    /\ pc = "timestamp"
    /\ \E i \in DOMAIN df_clean.frame :
          /\ MissingNumber(Original(df_clean.frame[i].idx).amount)
          /\ Original(df_clean.frame[i].idx).location_region = Str("Europe")
          /\ df_clean.frame[i].row.amount = F64(60)
    /\ \E i \in DOMAIN df_clean.frame :
          /\ MissingNumber(Original(df_clean.frame[i].idx).amount)
          /\ Original(df_clean.frame[i].idx).location_region = Str("Asia")
          /\ \A j \in DOMAIN df.frame :
                 df.frame[j].row.location_region = Str("Asia")
                     => MissingNumber(df.frame[j].row.amount)
          /\ IsNumber(df_clean.frame[i].row.amount)

\* C3 as the specification states it: cleaning the table that a call of the
\* cleaning returned returns that same table, rows and cells.
C3_Idempotent ==
    pc = "checks" => CleanCall(df_clean.frame) = df_clean

\* beside C3: the second cleaning does return the same table when the first
\* one left at least one row
C3_IdempotentWithRows ==
    (pc = "checks" /\ df_clean.frame # <<>>) => CleanCall(df_clean.frame) = df_clean

\* the sale rows of the cleaned table, and those paid to an address
Sales == {r \in Range(df_clean.frame) : r.row.transaction_type = Str("sale")}
SalesTo(a) == {r \in Sales : r.row.receiving_address = a}
SaleAddresses == {r.row.receiving_address : r \in Sales}
\* r has the greatest timestamp of the sales to its address
LatestSale(r) ==
    \A s \in SalesTo(r.row.receiving_address) :
        IsInstant(s.row.timestamp) =>
            /\ IsInstant(r.row.timestamp)
            /\ s.row.timestamp.instant <= r.row.timestamp.instant

\* C8 as the specification states it: the report has min(3, number of
\* distinct sale addresses) rows, each the record of another address, and that
\* record is the sale to the address with the greatest timestamp; with three
\* addresses or more no address left out has its latest sale above an amount in
\* the report; with no sale the report is empty.
C8_TopSales ==
    pc = "return" =>
        LET report == tabela2.frame
            chosen == {r \in Sales : \E i \in DOMAIN report : report[i].idx = r.idx}
        IN  /\ Len(report) =
                   IF Cardinality(SaleAddresses) < 3 THEN Cardinality(SaleAddresses) ELSE 3
            /\ Cardinality(chosen) = Len(report)
            /\ \A i \in DOMAIN report : \E r \in chosen :
                   /\ report[i].idx = r.idx
                   /\ report[i].row.receiving_address = r.row.receiving_address
                   /\ report[i].row.amount = r.row.amount
                   /\ report[i].row.timestamp = r.row.timestamp
            /\ \A r, q \in chosen :
                   r # q => r.row.receiving_address # q.row.receiving_address
            /\ \A r \in chosen : LatestSale(r)
            /\ \A a \in SaleAddresses \ {r.row.receiving_address : r \in chosen} :
                   \E s \in SalesTo(a) :
                       /\ LatestSale(s)
                       /\ \A r \in chosen : Val(s.row.amount) <= Val(r.row.amount)

\* the cleaning has returned its table
CleanReturned == pc \in {"checks", "reports", "return"}

\* C11 as the specification states it: no row of the table the cleaning
\* returns has an amount below zero, and the negative-amounts check run on
\* that table flags no row.
C11_NoNegativeAmount ==
    /\ CleanReturned => \A r \in Range(df_clean.frame) : ~Negative(r.row)
    /\ pc = "reports" => checks.flagged[3] = {}

\* C11 as the code has it: the cleaning neither removes nor rewrites an amount
\* below zero.  Stage 4 keeps every row that stage 1 kept, an amount that is a
\* number keeps its number through the cleaning, below zero or not, and the
\* negative-amounts check flags exactly the rows of the cleaned table whose
\* amount is below zero: it flags none only when that table holds none.
C11_NegativeAmountsKept ==
    /\ pc = "timestamp" =>
          /\ Labels(df_clean.frame) =
                 {r.idx : r \in {q \in Range(df.frame) : SoundAddresses(q.row)}}
          /\ InFileOrder(df_clean.frame)
    /\ (pc = "timestamp" \/ CleanReturned) =>
          \A r \in Range(df_clean.frame) :
              ~MissingNumber(Original(r.idx).amount) =>
                  /\ IsNumber(r.row.amount)
                  /\ Val(r.row.amount) = NumberOf(Original(r.idx).amount)
    /\ pc = "reports" =>
          /\ checks.flagged[3] =
                 {r.idx : r \in {q \in Range(df_clean.frame) : Negative(q.row)}}
          /\ (checks.flagged[3] = {}) <=>
                 \A r \in Range(df_clean.frame) : ~Negative(r.row)

\* C11 witness: the cleaning returned a row whose amount -5 came from the
\* file, next to a row it did not flag, and the negative-amounts check flagged
\* the former
C11_Witness ==
    /\ pc = "reports"
    /\ \E r \in Range(df_clean.frame) :
          /\ ~MissingNumber(Original(r.idx).amount)
          /\ NumberOf(Original(r.idx).amount) = 4 * (-5)
          /\ Val(r.row.amount) = 4 * (-5)
          /\ checks.flagged[3] = {r.idx}
    /\ Len(df_clean.frame) > 1

\* the columns no stage of the cleaning assigns
UntouchedColumns ==
    {"sending_address", "receiving_address", "transaction_type", "age_group",
     "anomaly", "session_duration"}
\* T is a sub-sequence of the frame read from the file: its rows are rows of
\* that frame, in the file's order, none twice
SubSequenceOfInput(T) ==
    /\ Labels(T) \subseteq Labels(df.frame)
    /\ InFileOrder(T)
    /\ \A i \in DOMAIN T : \A col \in UntouchedColumns :
           T[i].row[col] = Original(T[i].idx)[col]

\* C12: after each of the IP, risk_score, amount and timestamp stages the
\* table still holds exactly the rows the address stage kept, in their order,
\* whatever their IP, numbers and timestamp are; from stage 1 on, and in the
\* table the pipeline returns, the table is a sub-sequence of the input rows;
\* and once the cleaning has returned, the initial count is the number of input
\* rows, the final count is not above it, and the removed count is their
\* difference.
C12_RowsLeaveInThreeStages ==
    /\ pc \in {"risk_score", "amount", "timestamp", "region"} =>
          /\ Labels(df_clean.frame) =
                 {r.idx : r \in {q \in Range(df.frame) : SoundAddresses(q.row)}}
          /\ InFileOrder(df_clean.frame)
    /\ PastAddresses => SubSequenceOfInput(df_clean.frame)
    /\ (result # NotReturned /\ result.df_cleaned # None) =>
          SubSequenceOfInput(result.df_cleaned.frame)
    /\ CleanReturned =>
          /\ initial_count = Len(df.frame)
          /\ Len(df_clean.frame) <= initial_count
          /\ removed_count = initial_count - Len(df_clean.frame)

\* C12 witness: the cleaning returned a row whose IP it marked invalid and a
\* row whose timestamp did not convert, and removed one row of the three in
\* the file
C12_Witness ==
    /\ pc = "checks"
    /\ \E r \in Range(df_clean.frame) :
          /\ Original(r.idx).ip_prefix = Str("none")
          /\ r.row.ip_prefix = Str("INVALID_IP")
    /\ \E r \in Range(df_clean.frame) :
          /\ Original(r.idx).timestamp = Str("soon")
          /\ r.row.timestamp = NaT
    /\ initial_count = 3
    /\ removed_count = 1

====
